---- MODULE Spec2Model ----
(***************************************************************************)
(* Model of src/arb_bot.py: the triangular arbitrage bot.                  *)
(*                                                                         *)
(* Numbers.  The program computes with Python floats.  Here an amount of   *)
(* an asset is an integer count of 10^-8 units, a price is an integer      *)
(* count of 10^-2, a percentage is an integer count of 10^-6 percent, and  *)
(* every product or quotient is truncated to that grid.  TLC integers are  *)
(* 32 bits wide, so a product is computed without forming an intermediate  *)
(* above 2^31 and values at or above Huge are not told apart (an order     *)
(* book level whose cost is that large is far deeper than any amount the   *)
(* model walks with).                                                      *)
(***************************************************************************)
EXTENDS Integers, Sequences, FiniteSets, TLC

VARIABLES
    markets,        \* TriangleScanner.markets, in load order
    adj,            \* the adjacency graph build_adjacency returned
    triangles,      \* scanner.triangles
    phase,          \* position of the start-up code that builds the graph
    simIn,          \* arguments of one simulate_triangle call
    simOut,         \* what that call returned
    heap,           \* the dict objects the order-book store has created
    orderbooks,     \* SimpleOrderBook.orderbooks: symbol -> reference
    lock,           \* SimpleOrderBook.lock: the thread holding it
    poller,         \* update_orderbooks thread: position and fetched book
    reader,         \* a thread that called orderbook.get and reads the result
    config,         \* Config: MIN_PROFIT, TRADE_AMOUNT, DRY_RUN, SCAN_INTERVAL
    now,            \* time.time(), in seconds
    last_opportunity_time,
    loop,           \* main loop: position, scan cursor, best_opportunity, ...
    dispatches,     \* history: one record per executor.execute call of main
    trades,         \* TradeExecutor.trades (deque, newest first)
    stats,          \* TradeExecutor.stats
    exec,           \* TradeExecutor.execute in progress: position, trade_result
    recorded,       \* history: every trade_result ever appended, oldest first
    feed,           \* the opportunities a driver hands to execute, in order
    obs,            \* what the dashboard's request handler has read
    orders          \* the order legs submitted to the exchange, in order

graphVars == <<markets, adj, triangles, phase>>
simVars   == <<simIn, simOut>>
storeVars == <<heap, orderbooks, lock, poller, reader>>
mainVars  == <<config, now, last_opportunity_time, loop, dispatches>>
execVars  == <<trades, stats, exec, recorded, feed, obs, orders>>
vars == <<markets, adj, triangles, phase, simIn, simOut, heap, orderbooks,
          lock, poller, reader, config, now, last_opportunity_time, loop,
          dispatches, trades, stats, exec, recorded, feed, obs, orders>>

----------------------------------------------------------------------------
(* Numbers *)

Scale      == 10^8          \* amount units per 1.0
PriceScale == 10^2          \* price units per 1.0
Huge       == 2 * 10^9      \* saturation point of the 32-bit arithmetic

Min(a, b) == IF a <= b THEN a ELSE b

\* floor(a * b / c) for a, b >= 0 and c > 0, saturating at Huge
MulDiv(a, b, c) ==
    LET q == a \div c
        r == a % c
    IN  IF b = 0 THEN 0
        ELSE IF q > Huge \div b THEN Huge
        ELSE Min(Huge, q * b + (r * b) \div c)

\* price * volume and amount * price, amount / price
TimesPrice(x, price) == MulDiv(x, price, PriceScale)
OverPrice(x, price)  == MulDiv(x, PriceScale, price)

\* round(x, n): to the nearest multiple of step
RoundTo(x, step) == ((x + step \div 2) \div step) * step

None == [kind |-> "none"]

----------------------------------------------------------------------------
(* TriangleScanner.build_adjacency and find_triangles *)

Hub    == "USDT"
Assets == {"USDT", "BTC", "ETH"}

\* a market of exchange.load_markets(); its symbol is the pair base/quote
Market(b, q, a) == [symbol |-> <<b, q>>, base |-> b, quote |-> q, active |-> a]
Symbols == Assets \X Assets

EmptyAdj == [a \in Assets |-> <<>>]

Edge(to, symbol, dir) == [to |-> to, symbol |-> symbol, dir |-> dir]

\* a mutation: the markets that do not touch the hub are kept as well
AddMarketAnyPair(g, m) ==
    IF ~m.active THEN g
    ELSE LET g1 == [g EXCEPT ![m.base] = Append(@, Edge(m.quote, m.symbol, "buy"))]
         IN  [g1 EXCEPT ![m.quote] = Append(@, Edge(m.base, m.symbol, "sell"))]

\* one iteration of the loop of build_adjacency (lines 114-126)
AddMarket(g, m) ==
    IF ~m.active THEN g
    ELSE IF m.quote # Hub /\ m.base # Hub THEN g
    ELSE LET g1 == [g EXCEPT ![m.base] = Append(@, Edge(m.quote, m.symbol, "buy"))]
         IN  [g1 EXCEPT ![m.quote] = Append(@, Edge(m.base, m.symbol, "sell"))]

RECURSIVE BuildFrom(_, _)
BuildFrom(g, ms) ==
    IF ms = <<>> THEN g ELSE BuildFrom(AddMarket(g, Head(ms)), Tail(ms))

build_adjacency(ms) == BuildFrom(EmptyAdj, ms)

MAX_TRIANGLES == 500

Triangle(b, c, e1, e2, e3) ==
    [path       |-> <<Hub, b, c>>,
     pairs      |-> <<e1.symbol, e2.symbol, e3.symbol>>,
     directions |-> <<e1.dir, e2.dir, e3.dir>>]

\* innermost loop (lines 145-152): the edges of c that lead back to the hub
RECURSIVE Closing(_, _, _)
Closing(e1, e2, es) ==
    IF es = <<>> THEN <<>>
    ELSE (IF Head(es).to = Hub
          THEN <<Triangle(e1.to, e2.to, e1, e2, Head(es))>>
          ELSE <<>>) \o Closing(e1, e2, Tail(es))

\* middle loop (lines 142-144): the edges of b, skipping those back to the hub
RECURSIVE Second(_, _, _)
Second(g, e1, es) ==
    IF es = <<>> THEN <<>>
    ELSE (IF Head(es).to = Hub THEN <<>>
          ELSE Closing(e1, Head(es), g[Head(es).to])) \o Second(g, e1, Tail(es))

\* outer loop (line 141): the edges of the hub
RECURSIVE First(_, _)
First(g, es) ==
    IF es = <<>> THEN <<>>
    ELSE Second(g, Head(es), g[Head(es).to]) \o First(g, Tail(es))

find_triangles(ms) ==
    LET g   == build_adjacency(ms)
        all == First(g, g[Hub])
    IN  SubSeq(all, 1, Min(Len(all), MAX_TRIANGLES))

----------------------------------------------------------------------------
(* TriangleScanner.simulate_triangle *)

Level(price, volume) == [price |-> price, volume |-> volume]

Epsilon     == 1000         \* 0.00001 in amount units
FeePermille == 999          \* current *= 0.999

\* the loop over bids of a 'sell' leg (lines 176-183)
RECURSIVE WalkBids(_, _, _)
WalkBids(bids, remaining, received) ==
    IF bids = <<>> THEN [remaining |-> remaining, out |-> received]
    ELSE LET l == Head(bids)
         IN  IF l.volume >= remaining
             THEN [remaining |-> 0,
                   out |-> received + TimesPrice(remaining, l.price)]
             ELSE WalkBids(Tail(bids), remaining - l.volume,
                           received + TimesPrice(l.volume, l.price))

\* the loop over asks of a 'buy' leg (lines 195-203)
RECURSIVE WalkAsks(_, _, _)
WalkAsks(asks, remaining, acquired) ==
    IF asks = <<>> THEN [remaining |-> remaining, out |-> acquired]
    ELSE LET l    == Head(asks)
             cost == TimesPrice(l.volume, l.price)
         IN  IF cost <= remaining
             THEN WalkAsks(Tail(asks), remaining - cost, acquired + l.volume)
             ELSE [remaining |-> 0,
                   out |-> acquired + OverPrice(remaining, l.price)]

\* a mutation: the test of the unfilled remainder is missing
SimLegNoDepthTest(direction, ob, current) ==
    IF ob = None THEN None
    ELSE LET w == IF direction = "sell" THEN WalkBids(ob.bids, current, 0)
                  ELSE WalkAsks(ob.asks, current, 0)
         IN  [kind |-> "amount", current |-> MulDiv(w.out, FeePermille, 1000)]

\* a mutation: no fee is taken
SimLegNoFee(direction, ob, current) ==
    IF ob = None THEN None
    ELSE LET w == IF direction = "sell" THEN WalkBids(ob.bids, current, 0)
                  ELSE WalkAsks(ob.asks, current, 0)
         IN  IF w.remaining > Epsilon THEN None
             ELSE [kind |-> "amount", current |-> w.out]

\* a mutation: a leg without a stored book passes the amount on unchanged
SimLegSkipsMissing(direction, ob, current) ==
    IF ob = None THEN [kind |-> "amount", current |-> current]
    ELSE LET w == IF direction = "sell" THEN WalkBids(ob.bids, current, 0)
                  ELSE WalkAsks(ob.asks, current, 0)
         IN  IF w.remaining > Epsilon THEN None
             ELSE [kind |-> "amount", current |-> MulDiv(w.out, FeePermille, 1000)]

\* one iteration of the loop over the legs (lines 164-211), ob being what
\* orderbook.get(pair) returned: the amount after the fee, or None
SimLeg(direction, ob, current) ==
    IF ob = None THEN None
    ELSE LET w == IF direction = "sell" THEN WalkBids(ob.bids, current, 0)
                  ELSE WalkAsks(ob.asks, current, 0)
         IN  IF w.remaining > Epsilon THEN None
             ELSE [kind |-> "amount", current |-> MulDiv(w.out, FeePermille, 1000)]

\* (profit / amount) * 100 in 10^-6 percent; amount is a whole number of units
PctOf(profit, amount) == profit \div (amount \div Scale)

\* lines 213-225: the threshold test and the returned opportunity
SimFinish(triangle, amount, current, min_profit) ==
    LET profit     == current - amount
        profit_pct == PctOf(profit, amount)
    IN  IF profit_pct < min_profit THEN None
        ELSE [kind       |-> "opp",
              triangle   |-> triangle.path,
              pairs      |-> triangle.pairs,
              profit_pct |-> RoundTo(profit_pct, 1000),
              profit_usd |-> RoundTo(profit, 10^6)]

\* the legs k..3 of the triangle, against the store contents books
RECURSIVE SimLegs(_, _, _, _)
SimLegs(triangle, k, current, books) ==
    IF k > 3 THEN [kind |-> "amount", current |-> current]
    ELSE LET r == SimLeg(triangle.directions[k], books[triangle.pairs[k]], current)
         IN  IF r = None THEN None
             ELSE SimLegs(triangle, k + 1, r.current, books)

simulate_triangle(triangle, amount, books, min_profit) ==
    LET r == SimLegs(triangle, 1, amount, books)
    IN  IF r = None THEN None
        ELSE SimFinish(triangle, amount, r.current, min_profit)

----------------------------------------------------------------------------
(* State of the parts a specification does not exercise *)

ZeroStats == [total_trades |-> 0, profitable |-> 0, total_profit |-> 0, best_trade |-> 0]

GraphIdle == markets = <<>> /\ adj = EmptyAdj /\ triangles = <<>> /\ phase = "off"
SimIdle   == simIn = None /\ simOut = None
ExecIdle  ==
    /\ trades = <<>> /\ stats = ZeroStats /\ exec = [pc |-> "idle"]
    /\ recorded = <<>> /\ obs = None /\ orders = <<>>

----------------------------------------------------------------------------
(* SpecGraph: build_adjacency and find_triangles on every short market list *)

MaxMarkets == 3

GraphMarkets == {Market(b, q, a) : b \in Assets, q \in Assets, a \in BOOLEAN}

\* a dict of markets: no symbol twice
MarketLists ==
    {ms \in UNION {[1..n -> GraphMarkets] : n \in 0..MaxMarkets} :
        \A i \in 1..Len(ms), j \in 1..Len(ms) : i # j => ms[i].symbol # ms[j].symbol}

\* main, line 451: scanner = TriangleScanner(exchange, markets)
GraphLoaded(ms) ==
    markets = ms /\ adj = EmptyAdj /\ triangles = <<>> /\ phase = "loaded"

\* find_triangles, line 132: adj = self.build_adjacency()
GraphBuild ==
    /\ phase = "loaded"
    /\ adj' = build_adjacency(markets)
    /\ phase' = "adj"
    /\ UNCHANGED markets /\ UNCHANGED triangles

\* find_triangles, lines 133-154, and main, line 452
GraphFind ==
    /\ phase = "adj"
    /\ triangles' = find_triangles(markets)
    /\ phase' = "found"
    /\ UNCHANGED markets /\ UNCHANGED adj

----------------------------------------------------------------------------
(* SpecSim: simulate_triangle on a set of triangles, books and thresholds *)

P1 == <<"BTC", "USDT">>
P2 == <<"ETH", "BTC">>
P3 == <<"ETH", "USDT">>
SimSymbols == {P1, P2, P3}
Dirs == {"buy", "sell"}

Snapshot(bids, asks, t) == [bids |-> bids, asks |-> asks, timestamp |-> t]

\* prices in 10^-2, volumes in 10^-8: deep, two levels, shallow, short by 0.000005
Deep     == Snapshot(<<Level(150, 10 * Scale)>>, <<Level(80, 10 * Scale)>>, 0)
TwoLevel == Snapshot(<<Level(100, Scale), Level(90, 5 * Scale)>>,
                     <<Level(100, Scale), Level(110, 5 * Scale)>>, 0)
Shallow  == Snapshot(<<Level(100, Scale \div 2)>>, <<Level(100, Scale \div 2)>>, 0)
NearMiss == Snapshot(<<Level(100, Scale - 500)>>, <<Level(100, Scale - 500)>>, 0)
BookChoices == {None, Deep, TwoLevel, Shallow, NearMiss}

GeneralInputs ==
    {[triangle   |-> [path |-> <<Hub, "BTC", "ETH">>, pairs |-> <<P1, P2, P3>>,
                      directions |-> <<d1, d2, d3>>],
      amount     |-> a * Scale,
      books      |-> b,
      min_profit |-> 300000] :
        d1 \in Dirs, d2 \in Dirs, d3 \in Dirs, a \in {1, 3},
        b \in [SimSymbols -> BookChoices]}

\* the worked example: asks (20000, 1), asks (0.05, 10), bids (1050, 10), start 3
WorkedTriangle ==
    [path |-> <<Hub, "BTC", "ETH">>, pairs |-> <<P1, P2, P3>>,
     directions |-> <<"buy", "buy", "sell">>]
WorkedBooks ==
    (P1 :> Snapshot(<<>>, <<Level(2000000, Scale)>>, 0)) @@
    (P2 :> Snapshot(<<>>, <<Level(5, 10 * Scale)>>, 0)) @@
    (P3 :> Snapshot(<<Level(105000, 10 * Scale)>>, <<>>, 0))
WorkedThresholds == {300000, 4685000, 4690000}
WorkedInputs ==
    {[triangle |-> WorkedTriangle, amount |-> 3 * Scale, books |-> WorkedBooks,
      min_profit |-> m] : m \in WorkedThresholds}

SimCall(in) == simIn = in /\ simOut = [kind |-> "pending"]

\* result = scanner.simulate_triangle(triangle, amount)
SimReturn ==
    /\ simOut = [kind |-> "pending"]
    /\ simOut' = simulate_triangle(simIn.triangle, simIn.amount, simIn.books,
                                   simIn.min_profit)
    /\ UNCHANGED simIn

----------------------------------------------------------------------------
(* SimpleOrderBook and the poller thread update_orderbooks *)

\* the markets the running bot is modelled with.  Every edge that leaves a
\* non-hub asset leads to the hub, so find_triangles yields a triangle only
\* through a market whose base and quote are both the hub.
MainMarkets == <<Market("USDT", "USDT", TRUE), Market("BTC", "USDT", TRUE)>>
UU == <<"USDT", "USDT">>
BU == <<"BTC", "USDT">>

MAX_SYMBOLS == 100

\* main, lines 445-447: the active markets whose symbol contains 'USDT'
RECURSIVE UsdtSymbols(_)
UsdtSymbols(ms) ==
    IF ms = <<>> THEN <<>>
    ELSE (IF Head(ms).active /\ Hub \in {Head(ms).base, Head(ms).quote}
          THEN <<Head(ms).symbol>> ELSE <<>>) \o UsdtSymbols(Tail(ms))

PollSymbols ==
    LET all == UsdtSymbols(MainMarkets) IN SubSeq(all, 1, Min(Len(all), MAX_SYMBOLS))

\* Python objects: a stored snapshot is a dict object, the store and the
\* readers hold references to it, and an object nothing refers to is freed
Refs == 1..(Len(PollSymbols) + 2)
Free == [kind |-> "free"]

Range(f) == {f[x] : x \in DOMAIN f}

Collect(h, books, held) ==
    [r \in Refs |-> IF r \in Range(books) \cup held THEN h[r] ELSE Free]

NewRef(h) == CHOOSE r \in Refs : h[r] = Free /\ \A q \in Refs : h[q] = Free => r <= q

\* a mutation: the stored dict is overwritten in place instead of replaced
update_in_place(h, books, held, symbol, bids, asks, t) ==
    IF books[symbol] = 0
    THEN LET r == NewRef(h)
         IN  [heap |-> [h EXCEPT ![r] = Snapshot(bids, asks, t)],
              orderbooks |-> [books EXCEPT ![symbol] = r]]
    ELSE [heap |-> [h EXCEPT ![books[symbol]] = Snapshot(bids, asks, t)],
          orderbooks |-> books]

\* SimpleOrderBook.update, lines 89-93: a new dict replaces the stored one.
\* held are the references other threads hold; the replaced dict is freed
\* unless one of them is to it (addresses are not observable, so the model
\* frees it before it places the new dict)
update(h, books, held, symbol, bids, asks, t) ==
    LET h0 == Collect(h, [books EXCEPT ![symbol] = 0], held)
        r  == NewRef(h0)
    IN  [heap |-> [h0 EXCEPT ![r] = Snapshot(bids, asks, t)],
         orderbooks |-> [books EXCEPT ![symbol] = r]]

\* SimpleOrderBook.get, line 98: the reference stored for symbol, 0 for None
get(books, symbol) == books[symbol]

Deref(h, r) == IF r = 0 THEN None ELSE h[r]

\* ob['bids'][:10]
FirstTen(levels) == SubSeq(levels, 1, Min(Len(levels), 10))

StartTime == 2      \* time.time() when the threads start

StoreEmpty ==
    /\ heap = [r \in Refs |-> Free]
    /\ orderbooks = [s \in Symbols |-> 0]
    /\ lock = "free"

StoreIdle == StoreEmpty /\ poller = [pc |-> "off"] /\ reader = [pc |-> "off"]

\* what exchange.fetch_order_book can return: NBooks different books
NBooks == 2
Fetched(u) == [bids |-> <<Level(100 + u, Scale)>>, asks |-> <<Level(200 + u, Scale)>>]

HeldByReader == IF reader.pc \in {"got", "bids", "done"} THEN {reader.ref} ELSE {}

\* line 417: the fetch succeeds
PollerFetch ==
    /\ poller.pc = "fetch"
    /\ \E u \in 1..NBooks : poller' = [poller EXCEPT !.pc = "acquire", !.ob = Fetched(u)]
    /\ UNCHANGED <<heap, orderbooks, lock, reader>>

\* a mutation: the exception of a failed fetch ends the thread
PollerFetchFailsHalts ==
    /\ poller.pc = "fetch"
    /\ poller' = [poller EXCEPT !.pc = "halted"]
    /\ UNCHANGED <<heap, orderbooks, lock, reader>>

\* lines 423-425: the fetch raises; the symbol is skipped after a pause
PollerFetchFails ==
    /\ poller.pc = "fetch"
    /\ poller' = [poller EXCEPT !.pc = "pause"]
    /\ UNCHANGED <<heap, orderbooks, lock, reader>>

\* line 88, entered from line 418
PollerAcquire ==
    /\ poller.pc = "acquire"
    /\ lock = "free"
    /\ lock' = "poller"
    /\ poller' = [poller EXCEPT !.pc = "write"]
    /\ UNCHANGED <<heap, orderbooks, reader>>

\* lines 89-93 and the release of the lock
PollerWrite ==
    /\ poller.pc = "write"
    /\ LET s == PollSymbols[poller.i]
           u == update(heap, orderbooks, HeldByReader, s,
                       FirstTen(poller.ob.bids), FirstTen(poller.ob.asks), now)
       IN  heap' = u.heap /\ orderbooks' = u.orderbooks
    /\ lock' = "free"
    /\ poller' = [poller EXCEPT !.pc = "pause"]
    /\ UNCHANGED reader

\* lines 421, 425, 428: sleep, then the next symbol of the cycle
PollerNext ==
    /\ poller.pc = "pause"
    /\ poller' = [pc |-> "fetch", i |-> (poller.i % Len(PollSymbols)) + 1, ob |-> None]
    /\ UNCHANGED <<heap, orderbooks, lock, reader>>

\* a thread calls orderbook.get(symbol): line 97
ReaderAcquire ==
    /\ reader.pc = "idle"
    /\ lock = "free"
    /\ lock' = "reader"
    /\ \E i \in 1..Len(PollSymbols) :
         reader' = [reader EXCEPT !.pc = "locked", !.symbol = PollSymbols[i]]
    /\ UNCHANGED <<heap, orderbooks, poller>>

\* line 98 and the release of the lock
ReaderGet ==
    /\ reader.pc = "locked"
    /\ lock' = "free"
    /\ LET r == get(orderbooks, reader.symbol)
       IN  reader' = [reader EXCEPT !.pc = IF r = 0 THEN "idle" ELSE "got", !.ref = r]
    /\ UNCHANGED <<heap, orderbooks, poller>>

\* ob['bids'], read after the lock is released
ReaderBids ==
    /\ reader.pc = "got"
    /\ reader' = [reader EXCEPT !.pc = "bids", !.bids = heap[reader.ref].bids]
    /\ UNCHANGED <<heap, orderbooks, lock, poller>>

\* ob['asks'], read later
ReaderAsks ==
    /\ reader.pc = "bids"
    /\ reader' = [reader EXCEPT !.pc = "done", !.asks = heap[reader.ref].asks]
    /\ UNCHANGED <<heap, orderbooks, lock, poller>>

ReaderIdle == [pc |-> "idle", symbol |-> UU, ref |-> 0, bids |-> <<>>, asks |-> <<>>]

\* the reader is done with the snapshot and drops its reference
ReaderDrop ==
    /\ reader.pc = "done"
    /\ reader' = ReaderIdle
    /\ heap' = Collect(heap, orderbooks, {})
    /\ UNCHANGED <<orderbooks, lock, poller>>

----------------------------------------------------------------------------
(* TradeExecutor *)

MAXLEN == 100       \* deque(maxlen=100)

\* lines 253-260, and 272-279 with status 'executed'
TradeResult(opportunity, status, t) ==
    [id         |-> t,
     triangle   |-> opportunity.triangle,
     profit_pct |-> opportunity.profit_pct,
     profit_usd |-> opportunity.profit_usd,
     status     |-> status,
     timestamp  |-> t]

\* a mutation: the deque is unbounded
appendleft_unbounded(d, x) == <<x>> \o d

\* line 296: deque.appendleft on a deque of maxlen 100
appendleft(d, x) ==
    LET n == <<x>> \o d IN SubSeq(n, 1, Min(Len(n), MAXLEN))

\* line 297
CountTrade(st) == [st EXCEPT !.total_trades = @ + 1]
\* line 300
CountProfitable(st) == [st EXCEPT !.profitable = @ + 1]
\* a mutation: the profit is taken off the total
AddProfitNegated(st, tr) == [st EXCEPT !.total_profit = @ - tr.profit_usd]
\* line 301
AddProfit(st, tr) == [st EXCEPT !.total_profit = @ + tr.profit_usd]
\* line 303
RaiseBest(st, tr) == [st EXCEPT !.best_trade = tr.profit_usd]

\* a mutation: the test of line 299 is missing
UpdateStatsNoTest(st, tr) ==
    LET s3 == AddProfit(CountProfitable(CountTrade(st)), tr)
    IN  IF tr.profit_usd > s3.best_trade THEN RaiseBest(s3, tr) ELSE s3

\* lines 297-303 as one step
UpdateStats(st, tr) ==
    LET s1 == CountTrade(st)
    IN  IF tr.profit_usd > 0
        THEN LET s3 == AddProfit(CountProfitable(s1), tr)
             IN  IF tr.profit_usd > s3.best_trade THEN RaiseBest(s3, tr) ELSE s3
        ELSE s1

\* execute, lines 244-305, run without interruption (dry run, or live: the
\* live branch only prints the legs and sleeps)
execute(trs, st, opportunity, dry_run, t) ==
    LET tr == TradeResult(opportunity, IF dry_run THEN "dry_run" ELSE "executed", t)
    IN  [trades |-> appendleft(trs, tr), stats |-> UpdateStats(st, tr), trade |-> tr]

Opp(pct, usd) ==
    [kind |-> "opp", triangle |-> <<Hub, Hub, "BTC">>, pairs |-> <<UU, BU, BU>>,
     profit_pct |-> pct, profit_usd |-> usd]

DefaultConfig ==
    [MIN_PROFIT |-> 300000, TRADE_AMOUNT |-> 3 * Scale, DRY_RUN |-> TRUE,
     SCAN_INTERVAL |-> 1]

MainIdle ==
    /\ config = DefaultConfig /\ now = StartTime /\ last_opportunity_time = 0
    /\ loop = [pc |-> "off"] /\ dispatches = <<>>

----------------------------------------------------------------------------
(* SpecHist: a long run of execute calls *)

MaxExecutes == 102
NStreams    == 3

\* the opportunity of the n-th call in stream p: profits of 0 to 0.04
StreamOpp(p, n) == Opp((((n * p) % 5) + 1) * 1000, ((n * p) % 5) * 10^6)

HistStart(p, dry) ==
    /\ feed = [n \in 1..(MaxExecutes + 1) |-> StreamOpp(p, n)]
    /\ config = [DefaultConfig EXCEPT !.DRY_RUN = dry]
    /\ now = StartTime /\ last_opportunity_time = 0
    /\ loop = [pc |-> "off"] /\ dispatches = <<>>
    /\ ExecIdle

\* executor.execute(opportunity) with the next opportunity of the stream
HistExecute ==
    /\ Len(recorded) < MaxExecutes
    /\ LET r == execute(trades, stats, feed[Len(recorded) + 1], config.DRY_RUN, now)
       IN  /\ trades' = r.trades
           /\ stats' = r.stats
           /\ recorded' = Append(recorded, r.trade)
    /\ UNCHANGED <<exec, obs, feed, orders>>

----------------------------------------------------------------------------
(* SpecStatus: execute statement by statement, and the dashboard reading *)

MaxStatusTrades == 2
StatusOpps == {Opp(0, 0), Opp(1000, 10^6), Opp(2000, 2 * 10^6)}

StatusStart(dry) ==
    /\ config = [DefaultConfig EXCEPT !.DRY_RUN = dry]
    /\ now = StartTime /\ last_opportunity_time = 0
    /\ loop = [pc |-> "off"] /\ dispatches = <<>>
    /\ ExecIdle /\ feed = <<>>

\* line 511 enters execute; dry run: lines 251-260 build trade_result
ExecCallDry ==
    /\ exec.pc = "idle"
    /\ config.DRY_RUN
    /\ Len(recorded) < MaxStatusTrades
    /\ \E o \in StatusOpps :
         exec' = [pc |-> "append", trade_result |-> TradeResult(o, "dry_run", now)]
    /\ UNCHANGED <<trades, stats, recorded, feed, obs, orders>>

\* live: lines 262-265
ExecCallLive ==
    /\ exec.pc = "idle"
    /\ ~config.DRY_RUN
    /\ Len(recorded) < MaxStatusTrades
    /\ \E o \in StatusOpps : exec' = [pc |-> "leg", opportunity |-> o, i |-> 1]
    /\ UNCHANGED <<trades, stats, recorded, feed, obs, orders>>

\* lines 267-270: a leg is printed, the thread sleeps 0.1 s; nothing is
\* submitted to the exchange
ExecLeg ==
    /\ exec.pc = "leg"
    /\ exec.i <= 3
    /\ exec' = [exec EXCEPT !.i = @ + 1]
    /\ UNCHANGED <<trades, stats, recorded, feed, obs, orders>>

\* lines 272-279
ExecLegsDone ==
    /\ exec.pc = "leg"
    /\ exec.i > 3
    /\ exec' = [pc |-> "append",
                trade_result |-> TradeResult(exec.opportunity, "executed", now)]
    /\ UNCHANGED <<trades, stats, recorded, feed, obs, orders>>

\* line 296
ExecAppend ==
    /\ exec.pc = "append"
    /\ trades' = appendleft(trades, exec.trade_result)
    /\ recorded' = Append(recorded, exec.trade_result)
    /\ exec' = [exec EXCEPT !.pc = "count"]
    /\ UNCHANGED <<stats, feed, obs, orders>>

\* lines 297 and 299
ExecCount ==
    /\ exec.pc = "count"
    /\ stats' = CountTrade(stats)
    /\ exec' = [exec EXCEPT !.pc = IF exec.trade_result.profit_usd > 0
                                   THEN "profitable" ELSE "return"]
    /\ UNCHANGED <<trades, recorded, feed, obs, orders>>

\* line 300
ExecProfitable ==
    /\ exec.pc = "profitable"
    /\ stats' = CountProfitable(stats)
    /\ exec' = [exec EXCEPT !.pc = "profit"]
    /\ UNCHANGED <<trades, recorded, feed, obs, orders>>

\* lines 301 and 302
ExecProfit ==
    /\ exec.pc = "profit"
    /\ stats' = AddProfit(stats, exec.trade_result)
    /\ exec' = [exec EXCEPT !.pc = IF exec.trade_result.profit_usd > stats'.best_trade
                                   THEN "best" ELSE "return"]
    /\ UNCHANGED <<trades, recorded, feed, obs, orders>>

\* line 303
ExecBest ==
    /\ exec.pc = "best"
    /\ stats' = RaiseBest(stats, exec.trade_result)
    /\ exec' = [exec EXCEPT !.pc = "return"]
    /\ UNCHANGED <<trades, recorded, feed, obs, orders>>

\* line 305
ExecReturn ==
    /\ exec.pc = "return"
    /\ exec' = [pc |-> "idle"]
    /\ UNCHANGED <<trades, stats, recorded, feed, obs, orders>>

\* list(executor.trades)[:20]
Newest20(trs) == SubSeq(trs, 1, Min(Len(trs), 20))

\* index(), line 394: the handler copies the newest trades
StatusReadTrades ==
    /\ obs = None
    /\ obs' = [kind |-> "reading", trades |-> Newest20(trades)]
    /\ UNCHANGED <<trades, stats, exec, recorded, feed, orders>>

\* index(), line 395 and the rendering: the handler reads the stats
StatusReadStats ==
    /\ obs # None /\ obs.kind = "reading"
    /\ obs' = [kind |-> "read", trades |-> obs.trades, stats |-> stats]
    /\ UNCHANGED <<trades, stats, exec, recorded, feed, orders>>

\* the response is sent
StatusDone ==
    /\ obs # None /\ obs.kind = "read"
    /\ obs' = None
    /\ UNCHANGED <<trades, stats, exec, recorded, feed, orders>>

----------------------------------------------------------------------------
(* main: the trading loop, lines 486-522 *)

COOLDOWN   == 2     \* line 507: seconds between two executions
MaxElapsed == 3     \* the clock runs from StartTime to StartTime + MaxElapsed

\* the books the exchange returns in the scheduler specification: for the
\* hub pair bids 1.20 / asks 1.00 or bids 1.00 / asks 0.80, for BTC/USDT 2.00
UUBooks == {Snapshot(<<Level(120, 10 * Scale)>>, <<Level(100, 10 * Scale)>>, 0),
            Snapshot(<<Level(100, 10 * Scale)>>, <<Level(80, 10 * Scale)>>, 0)}
BUBooks == {Snapshot(<<Level(200, 10 * Scale)>>, <<Level(200, 10 * Scale)>>, 0)}
MainFetch(s) == IF s = UU THEN UUBooks ELSE BUBooks

MinProfits == {-1000000, 300000}

\* a mutation: the cooldown test never holds a dispatch back
CooldownActiveNever(t, last) == FALSE

\* a mutation: the cooldown lasts one second
CooldownActiveShort(t, last) == t - last < 1

\* line 507
CooldownActive(t, last) == t - last < COOLDOWN

\* a mutation: the comparison of line 500 is dropped, the last result wins
BetterAlways(result, best_profit) == result # None

\* line 500
Better(result, best_profit) == result # None /\ result.profit_pct > best_profit

\* line 505
Profitable(best_opportunity, best_profit, min_profit) ==
    best_opportunity # None /\ best_profit >= min_profit

\* a mutation: best_profit starts below every profit instead of at 0
TickBeginNoFloor(t) ==
    [pc |-> "scan", start |-> t, k |-> 1, leg |-> 1, current |-> config.TRADE_AMOUNT,
     best_opportunity |-> None, best_profit |-> -Huge, best_k |-> 0, results |-> <<>>,
     wake |-> 0]

\* lines 492-496: a tick starts.  best_k is the identity of the object
\* best_opportunity refers to: the index of the triangle whose result it is
TickBegin(t) ==
    [pc |-> "scan", start |-> t, k |-> 1, leg |-> 1, current |-> config.TRADE_AMOUNT,
     best_opportunity |-> None, best_profit |-> 0, best_k |-> 0, results |-> <<>>,
     wake |-> 0]

MainStart(mp) ==
    /\ markets = MainMarkets
    /\ adj = build_adjacency(MainMarkets)
    /\ triangles = find_triangles(MainMarkets)
    /\ phase = "found"
    /\ config = [DefaultConfig EXCEPT !.MIN_PROFIT = mp]
    /\ now = StartTime
    /\ last_opportunity_time = 0
    /\ loop = [pc |-> "top"]
    /\ dispatches = <<>>

\* time passes
Tick ==
    /\ now < StartTime + MaxElapsed
    /\ now' = now + 1
    /\ UNCHANGED <<config, last_opportunity_time, loop, dispatches>>
    /\ UNCHANGED <<heap, orderbooks>>
    /\ UNCHANGED <<trades, stats, recorded>>

\* the poller thread: orderbook.update(symbol, ...) of line 418, as one step
Poll ==
    /\ \E i \in 1..Len(PollSymbols) : \E b \in MainFetch(PollSymbols[i]) :
         LET u == update(heap, orderbooks, {}, PollSymbols[i],
                         FirstTen(b.bids), FirstTen(b.asks), now)
         IN  heap' = u.heap /\ orderbooks' = u.orderbooks
    /\ UNCHANGED <<config, now, last_opportunity_time, loop, dispatches>>
    /\ UNCHANGED <<trades, stats, recorded>>

\* lines 492-496
LoopTop ==
    /\ loop.pc = "top"
    /\ loop' = TickBegin(now)
    /\ UNCHANGED <<config, now, last_opportunity_time, dispatches>>
    /\ UNCHANGED <<heap, orderbooks>>
    /\ UNCHANGED <<trades, stats, recorded>>

\* lines 500-502 with the result of one simulate_triangle call, and the
\* step to the next triangle or to line 505
Taken(l, result) ==
    LET l1 == IF Better(result, l.best_profit)
              THEN [l EXCEPT !.best_profit = result.profit_pct,
                             !.best_opportunity = result,
                             !.best_k = l.k]
              ELSE l
    IN  [l1 EXCEPT !.results = Append(@, result),
                   !.k = @ + 1, !.leg = 1, !.current = config.TRADE_AMOUNT,
                   !.pc = IF l.k = Len(triangles) THEN "decide" ELSE "scan"]

\* one leg of simulate_triangle (lines 164-211) for triangle k, and after the
\* third leg lines 213-225
ScanLeg ==
    /\ loop.pc = "scan"
    /\ LET tri == triangles[loop.k]
           ob  == Deref(heap, get(orderbooks, tri.pairs[loop.leg]))
           r   == SimLeg(tri.directions[loop.leg], ob, loop.current)
       IN  loop' = IF r = None THEN Taken(loop, None)
                   ELSE IF loop.leg < 3
                   THEN [loop EXCEPT !.leg = @ + 1, !.current = r.current]
                   ELSE Taken(loop, SimFinish(tri, config.TRADE_AMOUNT, r.current,
                                              config.MIN_PROFIT))
    /\ UNCHANGED <<config, now, last_opportunity_time, dispatches>>
    /\ UNCHANGED <<heap, orderbooks>>
    /\ UNCHANGED <<trades, stats, recorded>>

\* lines 505-508: a profitable best opportunity inside the cooldown: continue
LoopSuppressed ==
    /\ loop.pc = "decide"
    /\ Profitable(loop.best_opportunity, loop.best_profit, config.MIN_PROFIT)
    /\ CooldownActive(now, last_opportunity_time)
    /\ loop' = [pc |-> "top"]
    /\ UNCHANGED <<config, now, last_opportunity_time, dispatches>>
    /\ UNCHANGED <<heap, orderbooks>>
    /\ UNCHANGED <<trades, stats, recorded>>

\* lines 505-507: a profitable best opportunity, the cooldown is over
LoopTrigger ==
    /\ loop.pc = "decide"
    /\ Profitable(loop.best_opportunity, loop.best_profit, config.MIN_PROFIT)
    /\ ~CooldownActive(now, last_opportunity_time)
    /\ loop' = [loop EXCEPT !.pc = "stamp"]
    /\ UNCHANGED <<config, now, last_opportunity_time, dispatches>>
    /\ UNCHANGED <<heap, orderbooks>>
    /\ UNCHANGED <<trades, stats, recorded>>

\* line 510
LoopStamp ==
    /\ loop.pc = "stamp"
    /\ last_opportunity_time' = now
    /\ loop' = [loop EXCEPT !.pc = "execute"]
    /\ UNCHANGED <<config, now, dispatches>>
    /\ UNCHANGED <<heap, orderbooks>>
    /\ UNCHANGED <<trades, stats, recorded>>

\* lines 511-514 and 522: execute runs, then the loop sleeps
LoopExecute ==
    /\ loop.pc = "execute"
    /\ LET r == execute(trades, stats, loop.best_opportunity, config.DRY_RUN, now)
       IN  /\ trades' = r.trades
           /\ stats' = r.stats
           /\ recorded' = Append(recorded, r.trade)
    /\ dispatches' = Append(dispatches, [start |-> loop.start, call |-> now])
    /\ loop' = [pc |-> "sleep", wake |-> now + config.SCAN_INTERVAL,
                executed |-> <<loop.best_opportunity>>, chosen |-> loop.best_k,
                results |-> loop.results]
    /\ UNCHANGED <<config, now, last_opportunity_time>>
    /\ UNCHANGED <<heap, orderbooks>>

\* lines 516-522: nothing to execute, the loop sleeps
LoopNothing ==
    /\ loop.pc = "decide"
    /\ ~Profitable(loop.best_opportunity, loop.best_profit, config.MIN_PROFIT)
    /\ loop' = [pc |-> "sleep", wake |-> now + config.SCAN_INTERVAL,
                executed |-> <<>>, chosen |-> 0, results |-> loop.results]
    /\ UNCHANGED <<config, now, last_opportunity_time, dispatches>>
    /\ UNCHANGED <<heap, orderbooks>>
    /\ UNCHANGED <<trades, stats, recorded>>

\* time.sleep(config.SCAN_INTERVAL) returns
LoopWake ==
    /\ loop.pc = "sleep"
    /\ now >= loop.wake
    /\ loop' = [pc |-> "top"]
    /\ UNCHANGED <<config, now, last_opportunity_time, dispatches>>
    /\ UNCHANGED <<heap, orderbooks>>
    /\ UNCHANGED <<trades, stats, recorded>>

----------------------------------------------------------------------------
(* SpecScan: the trading loop over a store the poller has filled *)

\* the hub pair as the poller stored it before the loop starts: asks at 0.80
\* with bids of 2.9999 at 1.25 and then 1.26; bids 1.20 with asks 1.00; bids
\* and asks at 1.00
ScanUUBooks ==
    {Snapshot(<<Level(125, 3 * Scale - 10^4), Level(126, 10 * Scale)>>,
              <<Level(80, 10 * Scale)>>, 0),
     Snapshot(<<Level(120, 10 * Scale)>>, <<Level(100, 10 * Scale)>>, 0),
     Snapshot(<<Level(100, 10 * Scale)>>, <<Level(100, 10 * Scale)>>, 0)}

\* MIN_PROFIT = float(os.getenv('MIN_PROFIT', '0.3')): -1, 0, 0.3, 19.6401,
\* 24.6252
ScanMinProfits == {-1000000, 0, 300000, 19640100, 24625200}

\* the store after orderbook.update(symbol, ...) ran for both symbols
ScanStore(uu, bu) ==
    LET u1 == update([r \in Refs |-> Free], [s \in Symbols |-> 0], {}, UU,
                     FirstTen(uu.bids), FirstTen(uu.asks), StartTime)
    IN  update(u1.heap, u1.orderbooks, {}, BU,
               FirstTen(bu.bids), FirstTen(bu.asks), StartTime)

ScanStart(mp, uu, bu) ==
    /\ MainStart(mp)
    /\ heap = ScanStore(uu, bu).heap
    /\ orderbooks = ScanStore(uu, bu).orderbooks
    /\ lock = "free"

----------------------------------------------------------------------------
(* The specifications *)

\* the scheduler: main loop, clock, and the poller's updates
Init ==
    /\ \E mp \in MinProfits : MainStart(mp)
    /\ SimIdle
    /\ StoreEmpty /\ poller = [pc |-> "off"] /\ reader = [pc |-> "off"]
    /\ ExecIdle /\ feed = <<>>

MainFrame == UNCHANGED <<markets, adj, triangles, phase, simIn, simOut, lock, poller,
                         reader, exec, feed, obs, orders>>

Next ==
    \/ Tick /\ MainFrame
    \/ Poll /\ MainFrame
    \/ LoopTop /\ MainFrame
    \/ ScanLeg /\ MainFrame
    \/ LoopSuppressed /\ MainFrame
    \/ LoopTrigger /\ MainFrame
    \/ LoopStamp /\ MainFrame
    \/ LoopExecute /\ MainFrame
    \/ LoopNothing /\ MainFrame
    \/ LoopWake /\ MainFrame

Spec == Init /\ [][Next]_vars

\* the trading loop and the clock, the store holding what the poller wrote
InitScan ==
    /\ \E mp \in ScanMinProfits, uu \in ScanUUBooks, bu \in BUBooks : ScanStart(mp, uu, bu)
    /\ SimIdle
    /\ poller = [pc |-> "off"] /\ reader = [pc |-> "off"]
    /\ ExecIdle /\ feed = <<>>

NextScan ==
    \/ Tick /\ MainFrame
    \/ LoopTop /\ MainFrame
    \/ ScanLeg /\ MainFrame
    \/ LoopSuppressed /\ MainFrame
    \/ LoopTrigger /\ MainFrame
    \/ LoopStamp /\ MainFrame
    \/ LoopExecute /\ MainFrame
    \/ LoopNothing /\ MainFrame
    \/ LoopWake /\ MainFrame

SpecScan == InitScan /\ [][NextScan]_vars

\* the graph construction on every market list
InitGraph ==
    /\ \E ms \in MarketLists : GraphLoaded(ms)
    /\ SimIdle /\ StoreIdle /\ MainIdle /\ ExecIdle /\ feed = <<>>

GraphFrame == UNCHANGED <<simVars, storeVars, mainVars, execVars>>

NextGraph ==
    \/ GraphBuild /\ GraphFrame
    \/ GraphFind /\ GraphFrame

SpecGraph == InitGraph /\ [][NextGraph]_vars

\* simulate_triangle as a function of its inputs
InitSim ==
    /\ \E in \in GeneralInputs \cup WorkedInputs : SimCall(in)
    /\ GraphIdle /\ StoreIdle /\ MainIdle /\ ExecIdle /\ feed = <<>>

NextSim == SimReturn /\ UNCHANGED <<graphVars, storeVars, mainVars, execVars>>

SpecSim == InitSim /\ [][NextSim]_vars

\* the order-book store under the poller thread and a reading thread
InitBook ==
    /\ StoreEmpty
    /\ poller = [pc |-> "fetch", i |-> 1, ob |-> None]
    /\ reader = ReaderIdle
    /\ GraphIdle /\ SimIdle /\ MainIdle /\ ExecIdle /\ feed = <<>>

BookFrame == UNCHANGED <<graphVars, simVars, mainVars, execVars>>

NextBook ==
    \/ PollerFetch /\ BookFrame
    \/ PollerFetchFails /\ BookFrame
    \/ PollerAcquire /\ BookFrame
    \/ PollerWrite /\ BookFrame
    \/ PollerNext /\ BookFrame
    \/ ReaderAcquire /\ BookFrame
    \/ ReaderGet /\ BookFrame
    \/ ReaderBids /\ BookFrame
    \/ ReaderAsks /\ BookFrame
    \/ ReaderDrop /\ BookFrame

SpecBook == InitBook /\ [][NextBook]_vars

\* the same under fair scheduling: a fetch returns or raises, a sleep ends, a
\* thread inside the lock runs on, and a thread waiting for the lock gets it
SpecBookFair ==
    /\ SpecBook
    /\ WF_vars((PollerFetch \/ PollerFetchFails) /\ BookFrame)
    /\ SF_vars(PollerAcquire /\ BookFrame)
    /\ WF_vars(PollerWrite /\ BookFrame)
    /\ WF_vars(PollerNext /\ BookFrame)
    /\ WF_vars(ReaderGet /\ BookFrame)

\* the executor over a long run of execute calls
InitHist ==
    /\ \E p \in 1..NStreams, dry \in BOOLEAN : HistStart(p, dry)
    /\ GraphIdle /\ SimIdle /\ StoreIdle

NextHist == HistExecute /\ UNCHANGED <<graphVars, simVars, storeVars, mainVars>>

SpecHist == InitHist /\ [][NextHist]_vars

\* execute statement by statement, with the dashboard reading
InitStatus ==
    /\ \E dry \in BOOLEAN : StatusStart(dry)
    /\ GraphIdle /\ SimIdle /\ StoreIdle

StatusFrame == UNCHANGED <<graphVars, simVars, storeVars, mainVars>>

NextStatus ==
    \/ ExecCallDry /\ StatusFrame
    \/ ExecCallLive /\ StatusFrame
    \/ ExecLeg /\ StatusFrame
    \/ ExecLegsDone /\ StatusFrame
    \/ ExecAppend /\ StatusFrame
    \/ ExecCount /\ StatusFrame
    \/ ExecProfitable /\ StatusFrame
    \/ ExecProfit /\ StatusFrame
    \/ ExecBest /\ StatusFrame
    \/ ExecReturn /\ StatusFrame
    \/ StatusReadTrades /\ StatusFrame
    \/ StatusReadStats /\ StatusFrame
    \/ StatusDone /\ StatusFrame

SpecStatus == InitStatus /\ [][NextStatus]_vars

----------------------------------------------------------------------------
(* The claims *)

\* C1 (cooldown): any two execute calls of the main loop lie in ticks that
\* together span at least the cooldown: the later call comes no sooner than
\* COOLDOWN after the start of the tick of the earlier one.
C1_Cooldown ==
    \A i \in 1..Len(dispatches) : \A j \in 1..Len(dispatches) :
        i < j => dispatches[j].call - dispatches[i].start >= COOLDOWN

\* a tick after an execution finds a profitable opportunity inside the cooldown
C1_Witness ==
    /\ Len(dispatches) >= 1
    /\ loop.pc = "decide"
    /\ Profitable(loop.best_opportunity, loop.best_profit, config.MIN_PROFIT)
    /\ CooldownActive(now, last_opportunity_time)

RECURSIVE SumProfit(_, _)
SumProfit(rs, n) ==
    IF n = 0 THEN 0
    ELSE SumProfit(rs, n - 1) + (IF rs[n].profit_usd > 0 THEN rs[n].profit_usd ELSE 0)

\* C2 (history bound): after n execute calls the history holds the min(n, 100)
\* most recently recorded trades, newest first, and the counters cover all n.
C2_HistoryBound ==
    LET n == Len(recorded)
        m == Min(n, MAXLEN)
    IN  /\ Len(trades) = m
        /\ \A i \in 1..m : trades[i] = recorded[n - i + 1]
        /\ stats.total_trades = n
        /\ stats.profitable = Cardinality({i \in 1..n : recorded[i].profit_usd > 0})
        /\ stats.total_profit = SumProfit(recorded, n)

\* more trades were executed than the history holds
C2_Witness ==
    /\ Len(recorded) > MAXLEN
    /\ Len(trades) = MAXLEN
    /\ stats.total_trades = Len(recorded)

\* C3 (atomic snapshot replacement): the bids and the asks a reader reads from
\* the snapshot it got were passed together in one update call.
C3_NoTornSnapshot ==
    reader.pc = "done" =>
        \E u \in 1..NBooks :
            /\ reader.bids = FirstTen(Fetched(u).bids)
            /\ reader.asks = FirstTen(Fetched(u).asks)

\* the reader finished reading a snapshot the store had replaced meanwhile
C3_Witness ==
    /\ reader.pc = "done"
    /\ orderbooks[reader.symbol] # reader.ref

RECURSIVE StatsAfter(_)
StatsAfter(n) == IF n = 0 THEN ZeroStats ELSE UpdateStats(StatsAfter(n - 1), recorded[n])

\* C4 (status reads atomic with respect to execute): what a request handler
\* read is what some number of complete execute calls leave behind: the stats
\* are the stats after n calls, and the history it copied before holds no
\* trade the stats do not count.
C4_StatusAtomic ==
    (obs # None /\ obs.kind = "read") =>
        /\ \E n \in 0..Len(recorded) : obs.stats = StatsAfter(n)
        /\ Len(obs.trades) <= Min(obs.stats.total_trades, 20)

HasEdge(g, from, to, symbol) ==
    \E i \in 1..Len(g[from]) : g[from][i].to = to /\ g[from][i].symbol = symbol

\* C5 (triangle validity): every triangle found has path [hub, A, B] with hub,
\* A and B pairwise distinct, and its pairs label edges hub->A, A->B, B->hub.
C5_TriangleValid ==
    phase = "found" =>
        \A i \in 1..Len(triangles) :
            LET t == triangles[i]
                a == t.path[2]
                b == t.path[3]
            IN  /\ t.path[1] = Hub
                /\ a # Hub /\ b # Hub /\ a # b
                /\ HasEdge(adj, Hub, a, t.pairs[1])
                /\ HasEdge(adj, a, b, t.pairs[2])
                /\ HasEdge(adj, b, Hub, t.pairs[3])

\* C6 (edge directions): an active market touching the hub gives the edge
\* base->quote labelled 'sell' and the edge quote->base labelled 'buy'.
C6_EdgeDirections ==
    phase \in {"adj", "found"} =>
        \A i \in 1..Len(markets) :
            LET m == markets[i]
            IN  (m.active /\ Hub \in {m.base, m.quote}) =>
                    /\ Edge(m.quote, m.symbol, "sell") \in Range(adj[m.base])
                    /\ Edge(m.base, m.symbol, "buy") \in Range(adj[m.quote])

\* the amount that enters leg k of the call, None when an earlier leg failed
RECURSIVE InputOf(_, _)
InputOf(in, k) ==
    IF k = 1 THEN [kind |-> "amount", current |-> in.amount]
    ELSE LET p == InputOf(in, k - 1)
         IN  IF p = None THEN None
             ELSE SimLeg(in.triangle.directions[k - 1],
                         in.books[in.triangle.pairs[k - 1]], p.current)

RECURSIVE SumCost(_)
SumCost(asks) ==
    IF asks = <<>> THEN 0
    ELSE TimesPrice(Head(asks).volume, Head(asks).price) + SumCost(Tail(asks))

RECURSIVE SumVolume(_)
SumVolume(bids) == IF bids = <<>> THEN 0 ELSE Head(bids).volume + SumVolume(Tail(bids))

\* what the book can fill on a leg: quote value of the asks, volume of the bids
Depth(direction, ob) == IF direction = "sell" THEN SumVolume(ob.bids) ELSE SumCost(ob.asks)

\* leg k is reached and its book is short of the amount by more than margin
Short(in, k, margin) ==
    LET p  == InputOf(in, k)
        ob == in.books[in.triangle.pairs[k]]
    IN  /\ p # None
        /\ ob # None
        /\ Depth(in.triangle.directions[k], ob) + margin < p.current

SimDone == simOut # [kind |-> "pending"] /\ simIn # None

\* C7 as claimed (insufficient depth): a leg whose book is short of the amount
\* to fill makes simulate_triangle return None.
C7_AnyShortfallIsNone ==
    (SimDone /\ \E k \in 1..3 : Short(simIn, k, 0)) => simOut = None

\* C7, amended: a leg whose book is short of the amount to fill by more than
\* 0.00001 makes simulate_triangle return None.
C7_ShortfallIsNone ==
    (SimDone /\ \E k \in 1..3 : Short(simIn, k, Epsilon)) => simOut = None

\* the third leg is reached with a book too shallow for it
C7_Witness ==
    /\ SimDone
    /\ Short(simIn, 3, Epsilon)
    /\ simOut = None

LegOut(direction, ob, x) ==
    IF direction = "sell" THEN WalkBids(ob.bids, x, 0).out ELSE WalkAsks(ob.asks, x, 0).out

\* the opportunity the chain of three filled legs must give
Chained(in) ==
    LET t  == in.triangle
        c1 == MulDiv(LegOut(t.directions[1], in.books[t.pairs[1]], in.amount), 999, 1000)
        c2 == MulDiv(LegOut(t.directions[2], in.books[t.pairs[2]], c1), 999, 1000)
        c3 == MulDiv(LegOut(t.directions[3], in.books[t.pairs[3]], c2), 999, 1000)
        profit == c3 - in.amount
        pct    == profit \div (in.amount \div Scale)
    IN  IF pct < in.min_profit THEN None
        ELSE [kind |-> "opp", triangle |-> t.path, pairs |-> t.pairs,
              profit_pct |-> RoundTo(pct, 1000), profit_usd |-> RoundTo(profit, 10^6)]

AllLegsFill(in) == \A k \in 1..3 : in.books[in.triangle.pairs[k]] # None /\ ~Short(in, k, Epsilon)

\* C8 as claimed (chained simulation): the worked example is an opportunity
\* with profit about 0.1406 and profitPct about 4.69 for every threshold up to
\* 4.69.
C8_WorkedUpTo469 ==
    (SimDone /\ simIn \in WorkedInputs /\ simIn.min_profit <= 4690000) =>
        /\ simOut.kind = "opp"
        /\ simOut.profit_usd >= 14060000 - 10^6 /\ simOut.profit_usd <= 14060000 + 10^6
        /\ simOut.profit_pct >= 4690000 - 10000 /\ simOut.profit_pct <= 4690000 + 10000

\* C8, amended: when all three legs fill, each leg's output times 0.999 enters
\* the next leg, profit = final - start and profitPct = profit / start * 100;
\* the worked example is an opportunity with reported profit 0.14 and
\* profitPct 4.685 for every threshold up to 4.685.
C8_Chained ==
    /\ (SimDone /\ AllLegsFill(simIn)) => simOut = Chained(simIn)
    /\ (SimDone /\ simIn \in WorkedInputs /\ simIn.min_profit <= 4685000) =>
           /\ simOut.kind = "opp"
           /\ simOut.profit_usd = 14 * 10^6
           /\ simOut.profit_pct = 4685000

\* the worked example at threshold 4.685
C8_Witness ==
    /\ SimDone
    /\ simIn \in WorkedInputs
    /\ simIn.min_profit = 4685000
    /\ simOut.kind = "opp"

\* C9 (dispatch on qualifying tick): a tick on which some simulation returned
\* an opportunity and the cooldown is over goes on to set
\* last_opportunity_time to now and to call execute once.
C9_DispatchOnQualifying ==
    [][/\ (/\ loop.pc = "decide"
           /\ loop'.pc # "decide"
           /\ \E i \in 1..Len(loop.results) : loop.results[i] # None
           /\ now - last_opportunity_time >= COOLDOWN)
          => loop'.pc = "stamp"
       /\ (loop.pc = "stamp" /\ loop'.pc # "stamp")
          => (last_opportunity_time' = now /\ loop'.pc = "execute")
       /\ (loop.pc = "execute" /\ loop'.pc # "execute")
          => (Len(dispatches') = Len(dispatches) + 1 /\ loop'.pc = "sleep")]_vars

\* C10 (best selection): the opportunity handed to execute on a tick is one of
\* the tick's results and none of the tick's results has a higher profit_pct.
C10_BestSelected ==
    (loop.pc = "sleep" /\ loop.executed # <<>>) =>
        LET o == loop.executed[1]
        IN  /\ \E i \in 1..Len(loop.results) : loop.results[i] = o
            /\ \A i \in 1..Len(loop.results) :
                   loop.results[i] # None => loop.results[i].profit_pct <= o.profit_pct

\* a tick with two opportunities of different profit executed one of them
C10_Witness ==
    /\ loop.pc = "sleep" /\ loop.executed # <<>>
    /\ Len(loop.results) = 2
    /\ loop.results[1] # None /\ loop.results[2] # None
    /\ loop.results[1].profit_pct # loop.results[2].profit_pct

\* what orderbook.get returns for every symbol in the current state
StoredBooks == [s \in Symbols |-> Deref(heap, get(orderbooks, s))]

\* the unrounded profit percentage of a triangle whose three legs fill
FullPct(tri) ==
    PctOf(SimLegs(tri, 1, config.TRADE_AMOUNT, StoredBooks).current - config.TRADE_AMOUNT,
          config.TRADE_AMOUNT)

\* C11 (full-precision comparisons): over a store that does not change during
\* the tick, the triangle whose opportunity is executed has the highest
\* unrounded profit percentage among the triangles that passed the threshold,
\* and a tick ends without an execution as "nothing profitable" only if no
\* triangle passed the threshold with a profit above zero (line 496 keeps
\* the others back, whatever the rounding).
C11_FullPrecision ==
    loop.pc = "sleep" =>
        /\ loop.executed # <<>> =>
               \A j \in 1..Len(loop.results) :
                   loop.results[j] # None =>
                       FullPct(triangles[j]) <= FullPct(triangles[loop.chosen])
        /\ loop.executed = <<>> =>
               \A j \in 1..Len(loop.results) :
                   loop.results[j] # None => FullPct(triangles[j]) <= 0

\* C12 (stats update): every execute call adds 1 to total_trades; a recorded
\* profit > 0 also adds 1 to profitable, adds the profit to total_profit and
\* makes best_trade the larger of best_trade and the profit; otherwise
\* profitable, total_profit and best_trade stay as they are.
C12_StatsUpdate ==
    [][Len(recorded') = Len(recorded) + 1 =>
          LET p == recorded'[Len(recorded')].profit_usd
          IN  /\ stats'.total_trades = stats.total_trades + 1
              /\ p > 0 =>
                     /\ stats'.profitable = stats.profitable + 1
                     /\ stats'.total_profit = stats.total_profit + p
                     /\ stats'.best_trade = IF p > stats.best_trade THEN p
                                            ELSE stats.best_trade
              /\ ~(p > 0) =>
                     /\ stats'.profitable = stats.profitable
                     /\ stats'.total_profit = stats.total_profit
                     /\ stats'.best_trade = stats.best_trade]_vars

\* a trade without profit was recorded after profitable ones
C12_Witness ==
    /\ Len(recorded) >= 3
    /\ recorded[Len(recorded)].profit_usd = 0
    /\ stats.total_trades = Len(recorded)
    /\ stats.profitable > 0 /\ stats.profitable < stats.total_trades
    /\ stats.best_trade > 0 /\ stats.best_trade < stats.total_profit

\* C13 (live-mode leg protocol): a trade is recorded with status 'executed'
\* only after its three legs were submitted to the exchange: the exchange has
\* received three order legs for every executed trade.
C13_LiveLegProtocol ==
    Len(orders) >= 3 * Cardinality({i \in 1..Len(recorded) : recorded[i].status = "executed"})

\* C14 (missing data): when the loop evaluates a leg whose pair has no stored
\* snapshot, the triangle's result is None, nothing else of the tick changes,
\* and the scan goes on with the next triangle (or, after the last one, to the
\* decision).
C14_MissingIsNone ==
    [][(/\ loop.pc = "scan"
        /\ loop' # loop
        /\ get(orderbooks, triangles[loop.k].pairs[loop.leg]) = 0)
       => /\ loop'.results = Append(loop.results, None)
          /\ loop'.best_opportunity = loop.best_opportunity
          /\ loop'.best_profit = loop.best_profit
          /\ IF loop.k < Len(triangles)
             THEN loop'.pc = "scan" /\ loop'.k = loop.k + 1 /\ loop'.leg = 1
             ELSE loop'.pc = "decide"
          /\ UNCHANGED <<trades, stats, dispatches, last_opportunity_time>>]_vars

\* the first triangle was given up for the missing BTC/USDT book while the
\* hub pair's book is stored, and the scan is at the second triangle
C14_Witness ==
    /\ loop.pc = "scan"
    /\ loop.k = 2
    /\ loop.results = <<None>>
    /\ get(orderbooks, UU) # 0
    /\ get(orderbooks, BU) = 0

\* the age in seconds from which a stored snapshot counts as stale
StaleAfter == 2

\* C15 (stale data): when the loop evaluates a leg whose stored snapshot was
\* written more than StaleAfter seconds ago, the triangle's result is None.
C15_StaleIsNone ==
    [][(/\ loop.pc = "scan"
        /\ loop' # loop
        /\ get(orderbooks, triangles[loop.k].pairs[loop.leg]) # 0
        /\ now - StoredBooks[triangles[loop.k].pairs[loop.leg]].timestamp > StaleAfter)
       => loop'.results = Append(loop.results, None)]_vars

\* C16 (poller progress): a failed fetch changes nothing in the store and the
\* poller goes on, after its pause, to the next symbol of the cycle; under
\* fair scheduling every tracked symbol is fetched again and again.
C16_PollerProgress ==
    /\ [][/\ (poller.pc = "fetch" /\ poller'.pc # "fetch" /\ poller'.pc # "acquire")
             => (poller'.pc = "pause" /\ UNCHANGED <<heap, orderbooks>>)
          /\ (poller.pc = "pause" /\ poller'.pc # "pause")
             => /\ poller'.pc = "fetch"
                /\ poller'.i = (IF poller.i = Len(PollSymbols) THEN 1 ELSE poller.i + 1)]_vars
    /\ \A i \in 1..Len(PollSymbols) : []<>(poller.pc = "fetch" /\ poller.i = i)

\* the poller is back at the first symbol, whose fetches have failed so far,
\* after it stored a book for the second
C16_Witness ==
    /\ poller.pc = "fetch"
    /\ poller.i = 1
    /\ get(orderbooks, PollSymbols[1]) = 0
    /\ get(orderbooks, PollSymbols[2]) # 0

\* C17 (fixed cadence): a new scan starts only out of the sleep that follows
\* the previous tick, and that sleep lasts the scan interval from the end of
\* the tick.
C17_FixedCadence ==
    [][/\ (loop.pc # "top" /\ loop'.pc = "top")
          => (loop.pc = "sleep" /\ now >= loop.wake)
       /\ (loop.pc # "sleep" /\ loop'.pc = "sleep")
          => loop'.wake = now + config.SCAN_INTERVAL]_vars

\* C18 (non-dispatching ticks are no-ops): last_opportunity_time, the trade
\* history, the stats and the record of execute calls change only in the
\* dispatch of a tick, and a tick goes on to dispatch only from its decision
\* with a qualifying result and the cooldown elapsed.
C18_NoDispatchNoChange ==
    [][/\ (\/ last_opportunity_time' # last_opportunity_time
           \/ trades' # trades
           \/ stats' # stats
           \/ dispatches' # dispatches)
          => loop.pc \in {"stamp", "execute"}
       /\ (loop.pc # "stamp" /\ loop'.pc = "stamp")
          => /\ loop.pc = "decide"
             /\ now - last_opportunity_time >= COOLDOWN
             /\ \E i \in 1..Len(loop.results) : loop.results[i] # None
       /\ (loop.pc # "execute" /\ loop'.pc = "execute") => loop.pc = "stamp"]_vars

\* after an execution, a later tick has ended without one and left the
\* history and the counters as they were
C18_Witness ==
    /\ loop.pc = "sleep"
    /\ loop.executed = <<>>
    /\ Len(dispatches) = 1
    /\ Len(trades) = 1
    /\ stats.total_trades = 1
    /\ last_opportunity_time = dispatches[1].call

\* C19 (no triangle without a hub self-pair): when every market has a base
\* different from its quote, every edge that leaves a non-hub asset leads to
\* the hub, and find_triangles returns the empty list.
C19_NoTriangles ==
    (/\ phase = "found"
     /\ \A i \in 1..Len(markets) : markets[i].base # markets[i].quote)
    => /\ \A a \in Assets \ {Hub} : \A i \in 1..Len(adj[a]) : adj[a][i].to = Hub
       /\ triangles = <<>>

\* three active markets that join the hub and two other assets pairwise: no
\* triangle is found
C19_Witness ==
    /\ phase = "found"
    /\ Len(markets) = 3
    /\ \A i \in 1..3 : markets[i].active /\ markets[i].base # markets[i].quote
    /\ \E i \in 1..3 : {markets[i].base, markets[i].quote} = {Hub, "BTC"}
    /\ \E i \in 1..3 : {markets[i].base, markets[i].quote} = {Hub, "ETH"}
    /\ \E i \in 1..3 : {markets[i].base, markets[i].quote} = {"BTC", "ETH"}
    /\ triangles = <<>>

\* C20 (stats invariants): in every state, those between the statements of
\* execute included, 0 <= profitable <= total_trades and
\* 0 <= best_trade <= total_profit, and no step lowers any of the four counters.
C20_StatsInvariants ==
    /\ [](/\ 0 <= stats.profitable /\ stats.profitable <= stats.total_trades
          /\ 0 <= stats.best_trade /\ stats.best_trade <= stats.total_profit)
    /\ [][/\ stats'.total_trades >= stats.total_trades
          /\ stats'.profitable >= stats.profitable
          /\ stats'.total_profit >= stats.total_profit
          /\ stats'.best_trade >= stats.best_trade]_vars

\* execute has added the second profit to total_profit and not yet raised
\* best_trade to it
C20_Witness ==
    /\ exec.pc = "best"
    /\ stats.total_trades = 2
    /\ stats.profitable = 2
    /\ stats.best_trade > 0
    /\ stats.best_trade < exec.trade_result.profit_usd
    /\ stats.total_profit = stats.best_trade + exec.trade_result.profit_usd

\* C21 (only positive profits are dispatched): the opportunity the loop hands
\* to execute, and every trade recorded from one, has a reported profit_pct
\* above 0 and at least MIN_PROFIT, whatever the sign of MIN_PROFIT.
C21_DispatchedPositive ==
    /\ loop.pc = "execute" =>
           /\ loop.best_opportunity # None
           /\ loop.best_opportunity.profit_pct > 0
           /\ loop.best_opportunity.profit_pct >= config.MIN_PROFIT
    /\ \A i \in 1..Len(recorded) :
           /\ recorded[i].profit_pct > 0
           /\ recorded[i].profit_pct >= config.MIN_PROFIT

\* under a negative threshold a tick returned an opportunity at a loss and
\* one at a profit, and the one at a profit was executed
C21_Witness ==
    /\ config.MIN_PROFIT < 0
    /\ loop.pc = "sleep"
    /\ loop.executed # <<>>
    /\ \E i \in 1..Len(loop.results) :
           loop.results[i] # None /\ loop.results[i].profit_pct < 0
    /\ recorded[Len(recorded)].profit_pct > 0

====
